---- MODULE Spec2Model ----
(***************************************************************************)
(* LULU UAE sales dashboard (src/new_app.py, src/app.py): a Streamlit      *)
(* script that is re-executed top to bottom on every user interaction.     *)
(* One script run = load_data x4 (memoised by st.cache_data), sidebar      *)
(* widgets, filter, KPIs, grouped aggregates, ad-budget merge, export.     *)
(***************************************************************************)
EXTENDS Integers, Sequences, FiniteSets, TLC

\* ------------------------------------------------------------------ bounds
MaxRows == 2       \* rows of transactions.csv
MaxAdRows == 2     \* rows of ad_budget_monthly.csv
MaxDay == 2        \* days of the calendar window the date picker offers
MaxPasses == 2     \* script runs in one process

\* ------------------------------------------------------------ value domains
\* The calendar window: day ordinal -> ISO date text, and the text of its
\* year-month period. The window straddles a month end.
Calendar == <<"2025-01-30", "2025-01-31", "2025-02-01", "2025-02-02", "2025-02-03">>
MonthOfDay == <<"2025-01", "2025-01", "2025-02", "2025-02", "2025-02">>
Months == <<"2025-01", "2025-02">>
Clock == <<"00:00:00", "12:00:00">>
Days == 1..MaxDay

NaN == "NaN"
Range(s) == {s[i] : i \in DOMAIN s}

RECURSIVE SumSeq(_)
SumSeq(s) == IF s = <<>> THEN 0 ELSE s[1] + SumSeq(Tail(s))

\* --------------------------------------------------------------- DataFrame
\* A DataFrame: column names in order, index labels, and one record per row.
TransactionColumns ==
  <<"transaction_id", "customer_id", "transaction_datetime", "emirate",
    "category", "product", "quantity", "total_aed", "gender", "age",
    "has_loyalty", "points_redeemed">>
AdColumns == <<"month", "category", "ad_budget_aed">>

Column(df, c) == [i \in 1..Len(df.rows) |-> df.rows[i][c]]

\* df[mask]: a new frame holding the rows whose mask entry is true, with
\* their index labels.
RECURSIVE Positions(_, _)
Positions(mask, n) ==
  IF n = 0 THEN <<>>
  ELSE IF mask[n] THEN Append(Positions(mask, n - 1), n)
       ELSE Positions(mask, n - 1)

Select(df, mask) ==
  LET pos == Positions(mask, Len(df.rows))
  IN [columns |-> df.columns,
      index |-> [k \in 1..Len(pos) |-> df.index[pos[k]]],
      rows |-> [k \in 1..Len(pos) |-> df.rows[pos[k]]]]

\* df[c] = values: assignment of a whole column, appended when new.
WithColumn(df, c, values) ==
  [columns |-> IF c \in Range(df.columns) THEN df.columns ELSE Append(df.columns, c),
   index |-> df.index,
   rows |-> [i \in 1..Len(df.rows) |->
              [f \in DOMAIN df.rows[i] \cup {c} |->
                 IF f = c THEN values[i] ELSE df.rows[i][f]]]]

\* pd.read_csv: header -> columns, one row per record, a fresh RangeIndex.
read_csv(file) ==
  [columns |-> file.header,
   index |-> [i \in 1..Len(file.records) |-> i - 1],
   rows |-> file.records]

\* pd.to_datetime on "YYYY-MM-DD hh:mm:ss" text: the timestamp as
\* (day ordinal, position of the time of day).
to_datetime(text) ==
  [day |-> CHOOSE d \in DOMAIN Calendar : Calendar[d] = text.d,
   tod |-> (CHOOSE t \in DOMAIN Clock : Clock[t] = text.t) - 1]
\* pd.to_datetime on a datetime.date: midnight of that day.
date_to_datetime(d) == [day |-> d, tod |-> 0]
AddDays(ts, n) == [day |-> ts.day + n, tod |-> ts.tod]
TsLess(a, b) == a.day < b.day \/ (a.day = b.day /\ a.tod < b.tod)
TsGeq(a, b) == ~TsLess(a, b)
\* Timestamp.date()
DateOf(ts) == ts.day
\* str(Timestamp), as to_csv writes it
TimestampText(ts) == [d |-> Calendar[ts.day], t |-> Clock[ts.tod + 1]]
\* dt.to_period('M').astype(str)
PeriodMText(ts) == MonthOfDay[ts.day]

\* ------------------------------------------------------------ script heap
\* Python objects have identity: the script's names are references into a
\* heap of DataFrames, so that in-place column assignment through one name
\* is seen through every alias of the same object.
Alloc(heap, df) == [heap |-> Append(heap, df), ref |-> Len(heap) + 1]
\* Mutant: the name is bound to the same object, no copy is made.
copy_Alias(heap, ref) == [heap |-> heap, ref |-> ref]
\* DataFrame.copy(): a new object with the same contents.
copy(heap, ref) == Alloc(heap, heap[ref])
\* obj[c] = values, in place.
SetColumn(heap, ref, c, values) == [heap EXCEPT ![ref] = WithColumn(@, c, values)]

\* ------------------------------------------------------------- aggregation
\* Series.sum() of column c.
ColSum(df, c) == SumSeq(Column(df, c))
\* Series.nunique() of column c (NaN is not counted).
NUnique(df, c) == Cardinality(Range(Column(df, c)) \ {NaN})
\* Series.mean(): NaN on an empty series, else the exact quotient sum/count.
Mean(df, c) ==
  IF Len(df.rows) = 0 THEN [nan |-> TRUE, num |-> 0, den |-> 1]
  ELSE [nan |-> FALSE, num |-> ColSum(df, c), den |-> Len(df.rows)]

\* The rows of df whose key columns equal the values in key (a record).
GroupRows(df, key) ==
  Select(df, [i \in 1..Len(df.rows) |-> \A c \in DOMAIN key : df.rows[i][c] = key[c]])
\* The group keys of groupby(cols): the distinct key tuples; rows with a NaN
\* key are dropped (dropna=True).
GroupKeys(df, cols) ==
  {k \in {[c \in cols |-> df.rows[i][c]] : i \in 1..Len(df.rows)} :
     \A c \in cols : k[c] # NaN}

\* f"{x:,.2f}" for an integer amount below 1000.
Format2fInt(n) == ToString(n) \o ".00"
\* f"{x:,.2f}" for a mean: "nan" for NaN, else two decimals, nearest cent.
TwoDigits(n) == IF n < 10 THEN "0" \o ToString(n) ELSE ToString(n)
Format2f(m) ==
  IF m.nan THEN "nan"
  ELSE LET cents == (200 * m.num + m.den) \div (2 * m.den)
       IN ToString(cents \div 100) \o "." \o TwoDigits(cents % 100)

\* KPIs: new_app.py lines 45-50.
KPIs(df) ==
  LET total_sales == ColSum(df, "total_aed")
      total_transactions == NUnique(df, "transaction_id")
      avg_basket == Mean(df, "total_aed")
  IN [total_sales |-> total_sales,
      total_transactions |-> total_transactions,
      avg_basket |-> avg_basket,
      metrics |-> <<[label |-> "Total Sales (AED)", value |-> Format2fInt(total_sales)],
                    [label |-> "Transactions", value |-> ToString(total_transactions)],
                    [label |-> "Avg Basket (AED)", value |-> Format2f(avg_basket)]>>]

\* pd.cut(age, bins=age_bins, labels=..., include_lowest=True): bins are
\* right-closed (right=True is the default), the first one also left-closed;
\* an age outside [18, 80] gets NaN.
age_bins == <<18, 25, 35, 45, 55, 65, 80>>
age_labels == <<"18-24", "25-34", "35-44", "45-54", "55-64", "65+">>
cut(age) ==
  LET hits == {k \in 1..Len(age_labels) :
                 /\ age <= age_bins[k + 1]
                 /\ (age > age_bins[k] \/ (k = 1 /\ age = age_bins[1]))}
  IN IF hits = {} THEN NaN ELSE age_labels[CHOOSE k \in hits : TRUE]

\* groupby('age_group')['total_aed'].sum(): age_group is categorical, so
\* every label has a row (0 when no row falls in it); NaN is dropped.
age_dist(df) ==
  [g \in Range(age_labels) |-> ColSum(GroupRows(df, [age_group |-> g]), "total_aed")]

\* groupby(cols)[col].sum().reset_index(): one row per group key.
GroupSum(df, cols, col) ==
  {[c \in cols \cup {col} |->
      IF c \in cols THEN k[c] ELSE ColSum(GroupRows(df, k), col)] :
   k \in GroupKeys(df, cols)}

\* Mutant: the group's rows are counted, not its distinct transaction ids.
loyal_RowCount(df) ==
  {LET g == GroupRows(df, k)
   IN [has_loyalty |-> IF k.has_loyalty = "True" THEN "Members" ELSE "Non-members",
       total_sales |-> ColSum(g, "total_aed"),
       transactions |-> Len(g.rows),
       avg_basket |-> Mean(g, "total_aed")] :
   k \in GroupKeys(df, {"has_loyalty"})}
\* Loyalty impact: new_app.py lines 74-75.
LoyaltyLabel(v) == IF v = "True" THEN "Members" ELSE "Non-members"
loyal(df) ==
  {LET g == GroupRows(df, k)
   IN [has_loyalty |-> LoyaltyLabel(k.has_loyalty),
       total_sales |-> ColSum(g, "total_aed"),
       transactions |-> NUnique(g, "transaction_id"),
       avg_basket |-> Mean(g, "total_aed")] :
   k \in GroupKeys(df, {"has_loyalty"})}

\* Redemption: new_app.py lines 80-86.
redeem(df) ==
  Select(df, [i \in 1..Len(df.rows) |-> df.rows[i].points_redeemed > 0])
redeem_summary(r) ==
  {LET g == GroupRows(r, k)
   IN [customer_id |-> k.customer_id,
       points_redeemed |-> ColSum(g, "points_redeemed"),
       sales_after_redeem |-> ColSum(g, "total_aed")] :
   k \in GroupKeys(r, {"customer_id"})}

\* Top products: new_app.py line 141. The order among equal sales is not
\* fixed by sort_values; one descending order is chosen.
HeadLimit == 15
top_products(df) ==
  LET groups == {LET g == GroupRows(df, k)
                 IN [category |-> k.category, product |-> k.product,
                     sales |-> ColSum(g, "total_aed"), qty |-> ColSum(g, "quantity")] :
                 k \in GroupKeys(df, {"category", "product"})}
      n == Cardinality(groups)
      sorted == CHOOSE s \in [1..n -> groups] :
                  /\ \A i, j \in 1..n : i # j => s[i] # s[j]
                  /\ \A i, j \in 1..n : i < j => s[i].sales >= s[j].sales
  IN SubSeq(sorted, 1, IF n < HeadLimit THEN n ELSE HeadLimit)

\* ---------------------------------------------------- ad budget vs sales
\* groupby(['month','category'])['total_aed'].sum().reset_index()
sales_month_cat(monthly_sales) == GroupSum(monthly_sales, {"month", "category"}, "total_aed")

\* pd.merge(ad, sales_month_cat, on=['month','category'], how='left'): one
\* row per row of ad, in ad's order (the right keys are unique); total_aed
\* is missing (<<>>) where no right row matches.
merge_left(ad, right) ==
  [i \in 1..Len(ad.rows) |->
     LET l == ad.rows[i]
         m == {g \in right : g.month = l.month /\ g.category = l.category}
     IN [month |-> l.month, category |-> l.category,
         ad_budget_aed |-> <<l.ad_budget_aed>>,
         total_aed |-> IF m = {} THEN <<>> ELSE <<(CHOOSE g \in m : TRUE).total_aed>>]]

\* pd.to_numeric(col).fillna(0) on a cell.
fillna0(cell) == IF cell = <<>> THEN 0 ELSE cell[1]

\* safe_month_to_dt: the month's first day, as the ordinal of the month;
\* NaT (0) when neither parse succeeds.
NaT == 0
safe_month_to_dt(m) ==
  IF m \in Range(Months) THEN CHOOSE k \in DOMAIN Months : Months[k] = m ELSE NaT

\* sort_values('month_dt'): ascending, NaT last; rows with equal keys keep
\* their order.
SortKey(row) == IF row.month_dt = NaT THEN Len(Months) + 1 ELSE row.month_dt
RECURSIVE Insert(_, _)
Insert(sorted, row) ==
  IF sorted = <<>> THEN <<row>>
  ELSE IF SortKey(sorted[Len(sorted)]) <= SortKey(row) THEN Append(sorted, row)
       ELSE Append(Insert(SubSeq(sorted, 1, Len(sorted) - 1), row), sorted[Len(sorted)])
RECURSIVE sort_values(_)
sort_values(rows) ==
  IF rows = <<>> THEN <<>>
  ELSE Insert(sort_values(SubSeq(rows, 1, Len(rows) - 1)), rows[Len(rows)])

\* new_app.py lines 96-111.
merged(ad, right) ==
  LET joined == merge_left(ad, right)
  IN sort_values([i \in 1..Len(joined) |->
       [month |-> joined[i].month, category |-> joined[i].category,
        ad_budget_aed |-> fillna0(joined[i].ad_budget_aed),
        total_aed |-> fillna0(joined[i].total_aed),
        month_dt |-> safe_month_to_dt(joined[i].month)]])

\* ------------------------------------------------------------------ export
\* DataFrame.to_csv(index=False): a header line with the column names and
\* one record per row holding the cells of those columns; the index is not
\* written. A timestamp cell is written as its text.
CellText(c, v) == IF c = "transaction_datetime" THEN TimestampText(v) ELSE v
to_csv(df) ==
  [header |-> df.columns,
   records |-> [i \in 1..Len(df.rows) |->
                  [c \in Range(df.columns) |-> CellText(c, df.rows[i][c])]]]

\* ----------------------------------------------------------------- filters
\* The heap references the module-level names are bound to by the four
\* load_data calls that the script body uses.
transactions == 1
ad_budget == 2

TsMin(S) == CHOOSE a \in S : \A b \in S : ~TsLess(b, a)
TsMax(S) == CHOOSE a \in S : \A b \in S : ~TsLess(a, b)

\* The value each sidebar widget returns on the first run: new_app.py lines
\* 24-31 (the whole date range, every option selected, "All").
WidgetDefaults(tx) ==
  LET dts == {to_datetime(tx.rows[i].transaction_datetime) : i \in 1..Len(tx.rows)}
  IN [date_range |-> <<DateOf(TsMin(dts)), DateOf(TsMax(dts))>>,
      selected_emirates |-> Range(Column(tx, "emirate")),
      selected_categories |-> Range(Column(tx, "category")),
      gender |-> Range(Column(tx, "gender")),
      loyalty_filter |-> "All"]

\* new_app.py lines 34-35: df = transactions.copy(), then the datetime
\* column of df is parsed in place.
ParseDates(heap) ==
  LET c == copy(heap, transactions)
      raw == Column(c.heap[c.ref], "transaction_datetime")
  IN [heap |-> SetColumn(c.heap, c.ref, "transaction_datetime",
                         [i \in DOMAIN raw |-> to_datetime(raw[i])]),
      ref |-> c.ref]

\* Mutant: the end date is not extended by one day.
DateWindow_NoNextDay(date_range) ==
  [start |-> date_to_datetime(date_range[1]),
   end |-> date_to_datetime(date_range[2])]
\* new_app.py line 36: start, end of the half-open window.
DateWindow(date_range) ==
  [start |-> date_to_datetime(date_range[1]),
   end |-> AddDays(date_to_datetime(date_range[2]), 1)]

\* Series.isin(values)
isin(v, values) == v \in values

\* new_app.py lines 37-42: each df = df[...] binds df to a new object.
FilterRows(heap, df, w) ==
  LET win == DateWindow(w.date_range)
      a1 == Alloc(heap, Select(heap[df],
              [i \in 1..Len(heap[df].rows) |->
                 /\ TsGeq(heap[df].rows[i].transaction_datetime, win.start)
                 /\ TsLess(heap[df].rows[i].transaction_datetime, win.end)]))
      d1 == a1.heap[a1.ref]
      a2 == Alloc(a1.heap, Select(d1,
              [i \in 1..Len(d1.rows) |->
                 /\ isin(d1.rows[i].emirate, w.selected_emirates)
                 /\ isin(d1.rows[i].category, w.selected_categories)
                 /\ isin(d1.rows[i].gender, w.gender)]))
      d2 == a2.heap[a2.ref]
  IN IF w.loyalty_filter = "Loyalty Members"
     THEN Alloc(a2.heap, Select(d2, [i \in 1..Len(d2.rows) |-> d2.rows[i].has_loyalty = "True"]))
     ELSE IF w.loyalty_filter = "Non-members"
     THEN Alloc(a2.heap, Select(d2, [i \in 1..Len(d2.rows) |-> d2.rows[i].has_loyalty = "False"]))
     ELSE a2

\* ------------------------------------------------------------------ state
Paths == <<"transactions.csv", "customers_demographics.csv",
           "loyalty_program.csv", "ad_budget_monthly.csv">>

VARIABLES
  files,         \* path -> the CSV file in storage
  cache,         \* st.cache_data store of load_data: path -> <<>> or <<table>>
  storageReads,  \* path -> number of pd.read_csv calls made on it
  ns,            \* values the four load_data calls returned in this run
  widgets,       \* session widget state: <<>> before the sidebar first runs
  clicked,       \* the export button was pressed for the coming run
  pc,            \* "run": a script run is due, "loaded", "idle"
  out,           \* what the last script run showed and computed
  passes         \* script runs started so far
vars == <<files, cache, storageReads, ns, widgets, clicked, pc, out, passes>>

\* ---------------------------------------------------------------- load_data
\* Mutant: no memoisation, every call reads storage.
load_data_Uncached(path, c, r, fails) ==
  IF path \in fails
  THEN [cache |-> c, reads |-> [r EXCEPT ![path] = @ + 1],
        ioerror |-> TRUE, raised |-> TRUE, value |-> <<>>]
  ELSE [cache |-> [c EXCEPT ![path] = <<read_csv(files[path])>>],
        reads |-> [r EXCEPT ![path] = @ + 1],
        ioerror |-> FALSE, raised |-> FALSE, value |-> <<read_csv(files[path])>>]
\* Mutant: a failed read is swallowed and an empty table is cached.
load_data_Swallow(path, c, r, fails) ==
  IF c[path] # <<>>
  THEN [cache |-> c, reads |-> r, ioerror |-> FALSE, raised |-> FALSE, value |-> c[path]]
  ELSE LET table == IF path \in fails
                    THEN [columns |-> <<>>, index |-> <<>>, rows |-> <<>>]
                    ELSE read_csv(files[path])
       IN [cache |-> [c EXCEPT ![path] = <<table>>],
           reads |-> [r EXCEPT ![path] = @ + 1],
           ioerror |-> path \in fails, raised |-> FALSE, value |-> <<table>>]
\* @st.cache_data load_data(path): a hit returns a copy of the stored table
\* without touching storage; a miss calls pd.read_csv, and stores the table
\* only when the call returns. `fails` are the paths whose read raises now.
load_data(path, c, r, fails) ==
  IF c[path] # <<>>
  THEN [cache |-> c, reads |-> r, ioerror |-> FALSE, raised |-> FALSE, value |-> c[path]]
  ELSE IF path \in fails
  THEN [cache |-> c, reads |-> [r EXCEPT ![path] = @ + 1],
        ioerror |-> TRUE, raised |-> TRUE, value |-> <<>>]
  ELSE LET table == read_csv(files[path])
       IN [cache |-> [c EXCEPT ![path] = <<table>>],
           reads |-> [r EXCEPT ![path] = @ + 1],
           ioerror |-> FALSE, raised |-> FALSE, value |-> <<table>>]

\* new_app.py lines 15-18: the four calls in order; an exception raised by
\* one of them ends the script run there.
RECURSIVE LoadAll(_, _, _, _, _)
LoadAll(i, c, r, values, fails) ==
  IF i > Len(Paths)
  THEN [cache |-> c, reads |-> r, ioerror |-> FALSE, raised |-> FALSE, values |-> values]
  ELSE LET one == load_data(Paths[i], c, r, fails)
       IN IF one.raised
          THEN [cache |-> one.cache, reads |-> one.reads, ioerror |-> one.ioerror,
                raised |-> TRUE, values |-> values]
          ELSE LET rest == LoadAll(i + 1, one.cache, one.reads, values \o one.value, fails)
               IN [rest EXCEPT !.ioerror = one.ioerror \/ rest.ioerror]

\* -------------------------------------------------------------- script body
NoOutput ==
  [exception |-> "none", ioerror |-> FALSE, rendered |-> <<>>, metrics |-> <<>>,
   filtered |-> <<>>, df |-> <<>>, view |-> <<>>, csv |-> <<>>, objects |-> <<>>]

SidebarComponents ==
  <<"title", "sidebar.header", "date_input", "multiselect.Emirates",
    "multiselect.Categories", "multiselect.Gender", "selectbox.Loyalty filter">>
ChartComponents(hasRedeem, click) ==
  <<"metric.Total Sales (AED)", "metric.Transactions", "metric.Avg Basket (AED)",
    "chart.age", "chart.gender", "chart.emirate_category", "chart.loyalty">>
  \o (IF hasRedeem THEN <<"chart.redeem">> ELSE <<"info.redeem">>)
  \o <<"chart.ad_vs_sales", "chart.top_products", "sidebar.button.export">>
  \o (IF click THEN <<"sidebar.download_button">> ELSE <<>>)

\* new_app.py lines 45-148, run on the filtered df (a heap reference).
Aggregate(heap, df, click) ==
  LET filtered == heap[df]
      kpi == KPIs(filtered)
      \* line 57: the age_group column is assigned on df itself
      h1 == SetColumn(heap, df, "age_group",
                      [i \in 1..Len(filtered.rows) |-> cut(filtered.rows[i].age)])
      r == redeem(h1[df])
      \* lines 90-93
      m == copy(h1, df)
      h2 == SetColumn(m.heap, m.ref, "month",
              [i \in 1..Len(m.heap[m.ref].rows) |->
                 PeriodMText(m.heap[m.ref].rows[i].transaction_datetime)])
      smc == sales_month_cat(h2[m.ref])
      ad == copy(h2, ad_budget)
      final == ad.heap
  IN [exception |-> "none", ioerror |-> FALSE,
      rendered |-> SidebarComponents \o ChartComponents(Len(r.rows) > 0, click),
      metrics |-> kpi.metrics,
      filtered |-> <<filtered>>,
      df |-> <<final[df]>>,
      view |-> <<[total_sales |-> kpi.total_sales,
                  total_transactions |-> kpi.total_transactions,
                  avg_basket |-> kpi.avg_basket,
                  age_dist |-> age_dist(h1[df]),
                  gender_dist |-> GroupSum(h1[df], {"gender"}, "total_aed"),
                  cat_em |-> GroupSum(h1[df], {"emirate", "category"}, "total_aed"),
                  loyal |-> loyal(h1[df]),
                  redeem_summary |-> redeem_summary(r),
                  sales_month_cat |-> smc,
                  merged |-> merged(final[ad.ref], smc),
                  top_products |-> top_products(h1[df])]>>,
      \* line 148: df.to_csv(index=False), evaluated when the button was pressed
      csv |-> IF click THEN <<to_csv(final[df])>> ELSE <<>>,
      objects |-> SubSeq(final, 1, 2)]

\* new_app.py lines 20-148 for the widget values w.
Body(tx, ad, w, click) ==
  LET p == ParseDates(<<tx, ad>>)
  IN IF Len(w.date_range) < 2
     THEN \* line 36: date_range[0] or date_range[1] raises IndexError
          [NoOutput EXCEPT !.exception = "IndexError",
                           !.rendered = SidebarComponents,
                           !.objects = SubSeq(p.heap, 1, 2)]
     ELSE LET f == FilterRows(p.heap, p.ref, w)
          IN Aggregate(f.heap, f.ref, click)

\* ------------------------------------------------------------- input files
TxRow(tid, cust, d, t, em, cat, prod, qty, amt, g, age, hl, pts) ==
  [transaction_id |-> tid, customer_id |-> cust,
   transaction_datetime |-> [d |-> Calendar[d], t |-> Clock[t]],
   emirate |-> em, category |-> cat, product |-> prod, quantity |-> qty,
   total_aed |-> amt, gender |-> g, age |-> age, has_loyalty |-> hl,
   points_redeemed |-> pts]
AdRow(m, cat, amt) == [month |-> m, category |-> cat, ad_budget_aed |-> amt]

\* The tables of 1..n rows drawn from a pool, up to the order of the rows
\* (row i of the table is never a later pool row than row i + 1).
Tables(pool, n) ==
  UNION {{[i \in 1..k |-> pool[f[i]]] :
            f \in {g \in [1..k -> DOMAIN pool] : \A i \in 1..(k - 1) : g[i] <= g[i + 1]}} :
         k \in 1..n}

BaseRow == TxRow("T1", "C1", 2, 2, "Dubai", "Grocery", "Rice", 1, 10, "F", 30, "True", 0)
\* The base row and the rows that differ from it in one filtered column:
\* the day before, the midnight that opens the day after, another emirate,
\* category, gender, a non-member and a row with no loyalty flag.
FilterPool ==
  <<BaseRow,
    TxRow("T2", "C2", 1, 2, "Dubai", "Grocery", "Rice", 1, 20, "F", 30, "True", 0),
    TxRow("T2", "C2", 3, 1, "Dubai", "Grocery", "Rice", 1, 20, "F", 30, "True", 0),
    TxRow("T2", "C2", 2, 2, "Sharjah", "Grocery", "Rice", 1, 20, "F", 30, "True", 0),
    TxRow("T2", "C2", 2, 2, "Dubai", "Electronics", "Phone", 1, 20, "F", 30, "True", 0),
    TxRow("T2", "C2", 2, 2, "Dubai", "Grocery", "Rice", 2, 20, "M", 30, "True", 5),
    TxRow("T2", "C2", 2, 2, "Dubai", "Grocery", "Rice", 1, 20, "F", 30, "False", 0),
    TxRow("T2", "C2", 2, 2, "Dubai", "Grocery", "Rice", 1, 20, "F", 30, NaN, 0)>>
\* Ages on and around every bin edge.
Ages == <<17, 18, 24, 25, 35, 65, 80, 81>>
AgePool ==
  [i \in DOMAIN Ages |->
     TxRow("T1", "C1", 2, 2, "Dubai", "Grocery", "Rice", 1, 10, "F", Ages[i], "True", 0)]
\* Transaction ids that repeat, with every value of the loyalty flag.
LoyalRow(tid, hl) == TxRow(tid, "C1", 2, 2, "Dubai", "Grocery", "Rice", 1, 10, "F", 30, hl, 0)
LoyalPool ==
  <<LoyalRow("T1", "True"), LoyalRow("T1", "False"), LoyalRow("T1", NaN),
    LoyalRow("T2", "True"), LoyalRow("T2", "False"), LoyalRow("T2", NaN)>>
\* Two months, two categories.
AdTxRow(d, cat) == TxRow("T1", "C1", d, 2, "Dubai", cat, "Rice", 1, 10, "F", 30, "True", 0)
AdTxPool ==
  <<AdTxRow(2, "Grocery"), AdTxRow(2, "Electronics"),
    AdTxRow(3, "Grocery"), AdTxRow(3, "Electronics")>>
AdPool == <<AdRow("2025-01", "Grocery", 1000), AdRow("2025-02", "Electronics", 500)>>

FixedAd == <<AdRow("2025-01", "Grocery", 1000), AdRow("2025-02", "Electronics", 500)>>

CsvFile(header, records) == [header |-> header, records |-> records]
CustomersFile == CsvFile(<<"customer_id", "nationality">>, <<[customer_id |-> "C1", nationality |-> "AE"]>>)
LoyaltyFile == CsvFile(<<"customer_id", "tier">>, <<[customer_id |-> "C1", tier |-> "Gold"]>>)

PathSet == Range(Paths)
Storage(tx, ad) ==
  [p \in PathSet |->
     IF p = Paths[1] THEN CsvFile(TransactionColumns, tx)
     ELSE IF p = Paths[2] THEN CustomersFile
     ELSE IF p = Paths[3] THEN LoyaltyFile
     ELSE CsvFile(AdColumns, ad)]

\* -------------------------------------------------------------------- Init
\* A fresh process: nothing cached, no session state, the first run is due.
InitWith(txTables, adTables) ==
  /\ files \in {Storage(tx, ad) : tx \in txTables, ad \in adTables}
  /\ cache = [p \in PathSet |-> <<>>]
  /\ storageReads = [p \in PathSet |-> 0]
  /\ ns = <<>>
  /\ widgets = <<>>
  /\ clicked = FALSE
  /\ pc = "run"
  /\ out = NoOutput
  /\ passes = 0

Init == InitWith(Tables(FilterPool, MaxRows), {FixedAd})
InitAge == InitWith(Tables(AgePool, MaxRows), {FixedAd})
InitLoyal == InitWith(Tables(LoyalPool, MaxRows), {FixedAd})
InitAd == InitWith(Tables(AdTxPool, MaxRows), {<<>>} \cup Tables(AdPool, MaxAdRows))

\* ----------------------------------------------------------------- actions
\* A script run starts: new_app.py lines 10-18. A load error is shown and
\* the run ends; nothing below line 18 executes. `fails` is the path whose
\* read raises in this run, if any (only a path not yet cached is read).
LoadData ==
  /\ pc = "run"
  /\ \E fails \in {{}} \cup {{p} : p \in {q \in PathSet : cache[q] = <<>>}} :
       LET l == LoadAll(1, cache, storageReads, <<>>, fails)
       IN /\ cache' = l.cache
          /\ storageReads' = l.reads
          /\ IF l.raised
             THEN /\ pc' = "idle"
                  /\ ns' = <<>>
                  /\ out' = [NoOutput EXCEPT !.exception = "LoadError", !.ioerror = TRUE]
                  /\ clicked' = FALSE
             ELSE /\ pc' = "loaded"
                  /\ ns' = l.values
                  /\ out' = [NoOutput EXCEPT !.ioerror = l.ioerror]
                  /\ clicked' = clicked
  /\ passes' = passes + 1
  /\ UNCHANGED <<files, widgets>>

\* The rest of the run: new_app.py lines 20-148. Each widget returns its
\* session value, or its default the first time it is rendered.
Render ==
  /\ pc = "loaded"
  /\ LET w == IF widgets = <<>> THEN WidgetDefaults(ns[1]) ELSE widgets[1]
     IN /\ widgets' = <<w>>
        /\ out' = [Body(ns[1], ns[4], w, clicked) EXCEPT !.ioerror = out.ioerror]
  /\ clicked' = FALSE
  /\ pc' = "idle"
  /\ ns' = <<>>
  /\ UNCHANGED <<files, cache, storageReads, passes>>

\* User interactions; each one triggers a rerun of the script.
CanInteract == pc = "idle" /\ passes < MaxPasses
DateRanges ==
  {<<>>} \cup {<<d>> : d \in Days} \cup {p \in Days \X Days : p[1] <= p[2]}

Rerun ==
  /\ CanInteract
  /\ pc' = "run"
  /\ UNCHANGED <<files, cache, storageReads, ns, widgets, clicked, out, passes>>

ChangeDateRange ==
  /\ CanInteract /\ widgets # <<>>
  /\ \E dr \in DateRanges \ {widgets[1].date_range} :
       widgets' = <<[widgets[1] EXCEPT !.date_range = dr]>>
  /\ pc' = "run"
  /\ UNCHANGED <<files, cache, storageReads, ns, clicked, out, passes>>

Options(c) == Range(Column(cache[Paths[1]][1], c))

ChangeEmirates ==
  /\ CanInteract /\ widgets # <<>>
  /\ \E sel \in (SUBSET Options("emirate")) \ {widgets[1].selected_emirates} :
       widgets' = <<[widgets[1] EXCEPT !.selected_emirates = sel]>>
  /\ pc' = "run"
  /\ UNCHANGED <<files, cache, storageReads, ns, clicked, out, passes>>

ChangeCategories ==
  /\ CanInteract /\ widgets # <<>>
  /\ \E sel \in (SUBSET Options("category")) \ {widgets[1].selected_categories} :
       widgets' = <<[widgets[1] EXCEPT !.selected_categories = sel]>>
  /\ pc' = "run"
  /\ UNCHANGED <<files, cache, storageReads, ns, clicked, out, passes>>

ChangeGender ==
  /\ CanInteract /\ widgets # <<>>
  /\ \E sel \in (SUBSET Options("gender")) \ {widgets[1].gender} :
       widgets' = <<[widgets[1] EXCEPT !.gender = sel]>>
  /\ pc' = "run"
  /\ UNCHANGED <<files, cache, storageReads, ns, clicked, out, passes>>

LoyaltyOptions == {"All", "Loyalty Members", "Non-members"}
ChangeLoyaltyFilter ==
  /\ CanInteract /\ widgets # <<>>
  /\ \E v \in LoyaltyOptions \ {widgets[1].loyalty_filter} :
       widgets' = <<[widgets[1] EXCEPT !.loyalty_filter = v]>>
  /\ pc' = "run"
  /\ UNCHANGED <<files, cache, storageReads, ns, clicked, out, passes>>

\* The export button exists only when the last run reached line 147.
ClickExport ==
  /\ CanInteract
  /\ \E i \in DOMAIN out.rendered : out.rendered[i] = "sidebar.button.export"
  /\ clicked' = TRUE
  /\ pc' = "run"
  /\ UNCHANGED <<files, cache, storageReads, ns, widgets, out, passes>>

Next ==
  \/ LoadData
  \/ Render
  \/ Rerun
  \/ ChangeDateRange
  \/ ChangeEmirates
  \/ ChangeCategories
  \/ ChangeGender
  \/ ChangeLoyaltyFilter
  \/ ClickExport

Spec == Init /\ [][Next]_vars
SpecAge == InitAge /\ [][Next]_vars
SpecLoyal == InitLoyal /\ [][Next]_vars
SpecAd == InitAd /\ [][Next]_vars

\* ------------------------------------------------------------ properties
LoadedTransactions == read_csv(files[Paths[1]])
LoadedAdBudget == read_csv(files[Paths[4]])
\* The last script run went through the filter and the aggregations.
Completed == pc = "idle" /\ out.exception = "none" /\ out.filtered # <<>>

\* The filter predicates as the specification words them, on a loaded row.
InDateRange(row, w) ==
  LET day == to_datetime(row.transaction_datetime).day
  IN w.date_range[1] <= day /\ day <= w.date_range[2]
LoyaltyMatch(row, w) ==
  \/ w.loyalty_filter = "All"
  \/ w.loyalty_filter = "Loyalty Members" /\ row.has_loyalty = "True"
  \/ w.loyalty_filter = "Non-members" /\ row.has_loyalty = "False"
PassesAll(row, w) ==
  /\ InDateRange(row, w)
  /\ row.emirate \in w.selected_emirates
  /\ row.category \in w.selected_categories
  /\ row.gender \in w.gender
  /\ LoyaltyMatch(row, w)

\* C1: the filtered view is exactly the loaded rows (by index label, in
\* order, with the datetime parsed and nothing else changed) that pass the
\* date, emirate, category, gender and loyalty predicates; so it is a subset
\* of the loaded table, empty iff every row fails a predicate, and empty
\* whenever a multi-select is empty.
C1_FilteredViewExact ==
  Completed =>
    LET T == LoadedTransactions
        w == widgets[1]
        F == out.filtered[1]
        kept == SelectSeq(T.index, LAMBDA lbl : PassesAll(T.rows[lbl + 1], w))
    IN /\ F.columns = T.columns
       /\ F.index = kept
       /\ \A k \in 1..Len(F.rows) :
            F.rows[k] = [T.rows[F.index[k] + 1] EXCEPT
                           !.transaction_datetime = to_datetime(@)]
       /\ Range(F.index) \subseteq Range(T.index)
       /\ (Len(F.rows) = 0 <=> \A i \in 1..Len(T.rows) : ~PassesAll(T.rows[i], w))
       /\ ({} \in {w.selected_emirates, w.selected_categories, w.gender}
             => Len(F.rows) = 0)
\* A run that kept one row and dropped another, under a loyalty filter.
C1_Witness ==
  /\ Completed
  /\ widgets[1].loyalty_filter # "All"
  /\ Len(out.filtered[1].rows) > 0
  /\ Len(out.filtered[1].rows) < Len(LoadedTransactions.rows)

Keys(rows) == {[month |-> r.month, category |-> r.category] : r \in rows}
\* C2: the ad-budget-vs-sales table is the outer join of the ad-budget table
\* with the per-(month, category) sales sums: every key of either side
\* appears; a budget-only key has total_aed = 0 and its budget unchanged, a
\* sales-only key has ad_budget_aed = 0 and total_aed = the sum of its sales.
C2_OuterJoin ==
  Completed =>
    LET v == out.view[1]
        adRows == Range(LoadedAdBudget.rows)
        m == Range(v.merged)
    IN /\ Keys(m) = Keys(adRows) \cup Keys(v.sales_month_cat)
       /\ \A a \in adRows :
            [month |-> a.month, category |-> a.category] \notin Keys(v.sales_month_cat)
              => \E r \in m : /\ r.month = a.month /\ r.category = a.category
                              /\ r.ad_budget_aed = a.ad_budget_aed /\ r.total_aed = 0
       /\ \A g \in v.sales_month_cat :
            [month |-> g.month, category |-> g.category] \notin Keys(adRows)
              => \E r \in m : /\ r.month = g.month /\ r.category = g.category
                              /\ r.ad_budget_aed = 0 /\ r.total_aed = g.total_aed

\* The bucket with inclusive lower and exclusive upper edge; "65+" is open.
HalfOpenBucket(a) ==
  IF a >= age_bins[Len(age_labels)] THEN age_labels[Len(age_labels)]
  ELSE age_labels[CHOOSE k \in 1..(Len(age_labels) - 1) :
                    age_bins[k] <= a /\ a < age_bins[k + 1]]
\* C3: every age of 18 or more is put in the bucket whose lower edge is
\* inclusive and whose upper edge is exclusive (25 opens "25-34", 80 is in
\* "65+"), and each bucket's value is the sum of total_aed of its rows.
C3_AgeBuckets ==
  Completed =>
    LET d == out.df[1]
        v == out.view[1]
    IN /\ \A i \in 1..Len(d.rows) :
            d.rows[i].age >= age_bins[1] => d.rows[i].age_group = HalfOpenBucket(d.rows[i].age)
       /\ \A g \in Range(age_labels) :
            v.age_dist[g] =
              SumSeq([i \in 1..Len(d.rows) |->
                        IF d.rows[i].age >= age_bins[1] /\ HalfOpenBucket(d.rows[i].age) = g
                        THEN d.rows[i].total_aed ELSE 0])

RECURSIVE SumTransactions(_)
SumTransactions(groups) ==
  IF groups = {} THEN 0
  ELSE LET g == CHOOSE x \in groups : TRUE
       IN g.transactions + SumTransactions(groups \ {g})
NoNullLoyalty(df) == \A i \in 1..Len(df.rows) : df.rows[i].has_loyalty # NaN
\* The transaction ids that occur on a member row and on a non-member row.
IdsWith(df, flag) ==
  {df.rows[i].transaction_id : i \in {j \in 1..Len(df.rows) : df.rows[j].has_loyalty = flag}}
MixedIds(df) == IdsWith(df, "True") \cap IdsWith(df, "False")
\* C4 as stated: with no null has_loyalty, the per-group distinct
\* transaction counts of the loyalty-impact table add up to the KPI
\* transaction count, for every accepted table.
C4_GroupCountsSumToTotal ==
  (Completed /\ NoNullLoyalty(out.filtered[1])) =>
    SumTransactions(out.view[1].loyal) = out.view[1].total_transactions
\* C4 amended: with no null has_loyalty, the per-group counts add up to the
\* KPI transaction count plus the number of transaction ids that occur both
\* on a member row and on a non-member row (so they are equal exactly when
\* no transaction id has rows with differing has_loyalty).
C4_GroupCountsSumAmended ==
  (Completed /\ NoNullLoyalty(out.filtered[1])) =>
    LET v == out.view[1]
        mixed == Cardinality(MixedIds(out.filtered[1]))
    IN /\ SumTransactions(v.loyal) = v.total_transactions + mixed
       /\ (SumTransactions(v.loyal) = v.total_transactions <=> mixed = 0)
\* A view with a repeated transaction id on rows of one loyalty group.
C4_Witness ==
  /\ Completed /\ NoNullLoyalty(out.filtered[1])
  /\ Len(out.filtered[1].rows) = 2
  /\ out.view[1].total_transactions = 1
  /\ MixedIds(out.filtered[1]) = {}

\* C5: on an empty filtered view the run completes, total sales and the
\* transaction count show zero, and the average basket shows zero or blank.
C5_EmptyViewKpis ==
  (pc = "idle" /\ out.filtered # <<>> /\ Len(out.filtered[1].rows) = 0) =>
    /\ out.exception = "none"
    /\ out.metrics[1].value = "0.00"
    /\ out.metrics[2].value = "0"
    /\ out.metrics[3].value \in {"0.00", "0", ""}

\* C6: a run whose date range is not a pair of dates shows a validation
\* message, does no filtering or aggregation, and does not crash.
C6_InvalidDateRangeValidated ==
  (pc = "idle" /\ widgets # <<>> /\ Len(widgets[1].date_range) # 2) =>
    /\ out.exception = "none"
    /\ \E i \in DOMAIN out.rendered : out.rendered[i] = "error.date_range"
    /\ out.filtered = <<>> /\ out.view = <<>>

\* C7 as stated: no source path is read from storage more than once.
C7_ReadAtMostOnce == \A p \in PathSet : storageReads[p] <= 1
CacheKeyedByPath ==
  /\ \A p \in PathSet : cache[p] # <<>> => cache[p] = <<read_csv(files[p])>>
  /\ pc = "loaded" => \A i \in DOMAIN Paths : ns[i] = read_csv(files[Paths[i]])
NoReadOnceCached ==
  \A p \in PathSet :
    /\ cache[p] # <<>> => (storageReads'[p] = storageReads[p] /\ cache'[p] = cache[p])
    /\ (cache[p] = <<>> /\ cache'[p] # <<>>) => storageReads'[p] = storageReads[p] + 1
\* C7 amended: each path is read successfully at most once: once a
\* load_data(path) call has returned, every later call with that path returns
\* the cached table without reading storage, while a call whose read fails
\* caches nothing, so the path is read again on the next run; the cache is
\* keyed by path, each name getting the table of its own file.
C7_ReadOnceAfterSuccess == [](CacheKeyedByPath) /\ [][NoReadOnceCached]_vars
\* A second run served entirely from the cache.
C7_Witness ==
  /\ passes >= 2 /\ pc = "loaded"
  /\ \A p \in PathSet : storageReads[p] = 1

\* C8: when a read fails, the load error is shown, nothing else of the run
\* is rendered or computed, and the cache never holds anything for a path
\* but the table of its file.
C8_LoadErrorStopsRun ==
  /\ out.ioerror =>
       /\ pc # "loaded"
       /\ out.exception = "LoadError"
       /\ out.rendered = <<>> /\ out.metrics = <<>>
       /\ out.filtered = <<>> /\ out.view = <<>> /\ out.csv = <<>>
  /\ \A p \in PathSet : cache[p] # <<>> => cache[p] = <<read_csv(files[p])>>
  /\ \A p \in PathSet : cache[p] = <<>> => (pc = "idle" => out.rendered = <<>>)
\* The ad-budget read failed after the three files before it were cached.
C8_Witness ==
  /\ out.ioerror /\ out.exception = "LoadError"
  /\ cache[Paths[3]] # <<>> /\ cache[Paths[4]] = <<>>
  /\ storageReads[Paths[4]] = 1

C10_ExportMatchesFilteredView ==
  (pc = "idle" /\ out.csv # <<>>) =>
    LET parsed == read_csv(out.csv[1])
        F == out.filtered[1]
    IN /\ Len(parsed.rows) = Len(F.rows)
       /\ Range(parsed.columns) = Range(F.columns)
       /\ Len(parsed.columns) = Len(F.columns)
       /\ \A i \in 1..Len(parsed.rows) : DOMAIN parsed.rows[i] = Range(F.columns)

====
